---- MODULE Spec2Model ----
(***************************************************************************)
(* Model of the programs of cpp-misc:                                      *)
(*                                                                         *)
(*   - the counting scan (mcount_if / std::count_if / count_even) driven   *)
(*     by the benchmark functions of simd_prefers_32bit_data.bench.cpp;    *)
(*   - the contended counters of false_sharing.cpp (four threads, each     *)
(*     incrementing its own element of results[4]).                        *)
(*                                                                         *)
(* The two programs share nothing; SpecScan runs the first and keeps the   *)
(* variables of the second at their initial value, SpecCounters the        *)
(* reverse.  SpecBench runs the benchmark binary as shipped (SIZE = 1 << 25, *)
(* the sizes registered by Range(LEFT, RIGHT)), with the scan of a prefix  *)
(* summarised by its count.                                                *)
(***************************************************************************)
EXTENDS Integers, Sequences, FiniteSets

VARIABLES
    \* ---- counting scan ----
    global_vec,   \* the benchmark's input vector (values of element_type)
    routine,      \* which scan routine the benchmark calls
    ResType,      \* width in bits of the accumulator type
    size,         \* state.range(0): length of the span test_vec
    iters,        \* completed iterations of `for(auto _ : state)`
    spc,          \* position of the benchmark / scan
    first,        \* loop cursor (0-based offset from test_vec.begin())
    result,       \* the accumulator
    tmp,          \* <<value returned by the last call>>, << >> before
    reads,        \* offsets read by the running call, in order
    \* ---- contended counters ----
    align,        \* alignas(...) of struct Storage, in bytes
    nthreads,     \* number of worker threads main constructs and joins
    M,            \* loop bound of do_stuff in this build
    chunk,        \* loop iterations covered by one modelled pass of the body
    mem,          \* 64-bit words of the storage of results[]
    idx,          \* idx argument each thread was constructed with
    wpc,          \* position of each worker thread
    wi,           \* loop variable i of each worker
    reg,          \* register holding ref.val between load and store
    ref,          \* word each worker's `ref` is bound to
    mpc,          \* position of main
    mk,           \* which thread / counter main is at
    joined,       \* threads main has joined
    sum,          \* partial sum of the expression printed by main
    out,          \* lines written to std::cout
    \* ---- the benchmark binary as shipped ----
    bpc,          \* position of the binary: registration, then the runs
    family,       \* which BENCHMARK(...) line is registered / run (0..2)
    range_i,      \* the power of the multiplier Range() is at
    args,         \* args[f]: the sizes registered for family f, in order
    arg,          \* index in args[family] of the instance that runs
    evens,        \* even elements among the first `size` of global_vec
    bytes         \* <<value passed to state.SetBytesProcessed>>, << >> before

scanVars == <<global_vec, routine, ResType, size, iters, spc, first, result,
              tmp, reads>>
cntVars  == <<align, nthreads, M, chunk, mem, idx, wpc, wi, reg, ref, mpc, mk, joined,
              sum, out>>
benchVars == <<bpc, family, range_i, args, arg, evens, bytes>>
vars     == <<scanVars, cntVars, benchVars>>

None == "none"

\* the index and the reference of a thread that has not been started do not
\* exist yet; -1 is no index of results[4] and no address
Unbound == 0 - 1

----------------------------------------------------------------------------
(* Bounds                                                                  *)

\* longest exhaustively enumerated input vector
MaxLen == 3
\* element values are drawn from 0..MaxVal
MaxVal == 3
\* length of the long (periodic) input vectors; more than 255 so that an
\* 8-bit accumulator can wrap, and a multiple of 32 so that every
\* instantiation of count_even<true> has an admissible size
LongLen == 288
\* longest period of a long input vector
MaxPeriod == 2
\* benchmark iterations modelled
MaxIters == 2
\* elements of the `int` vectors are drawn from -MaxNeg..MaxVal
MaxNeg == 2
\* largest loop bound of do_stuff explored instruction by instruction
MaxIter == 2
\* passes of the loop body the full-size build (1 << 26) is cut into
Passes == 2
\* most iterations of `for(auto _ : state)` the library runs an instance for
MaxRuns == 3

----------------------------------------------------------------------------
(* Counting scan: pure parts                                               *)

Widths == {8, 16, 32, 64}

\* Variants of Wrap: an accumulator that never wraps, and one that loses
\* its top bit.
Wrap_nowrap(x, w) == x

Wrap_narrow(x, w) == IF w < 31 THEN x % (2 ^ (w - 1)) ELSE x

\* Reduction of a non-negative count to an unsigned type of w bits.  The
\* model checker's integers are 32-bit, and no count of the model reaches
\* 2^31, so reduction to 32 or 64 bits leaves every count of the model as
\* it is.
Wrap(x, w) == IF w < 31 THEN x % (2 ^ w) ELSE x

\* Variant of is_even without the comparison: el % 2
is_even_nocmp(el) == el % 2

\* is_even: el % 2 == 0, converted to the accumulator type (0 or 1)
is_even(el) == IF el % 2 = 0 THEN 1 ELSE 0

\* a % b of C++ on int: the quotient is truncated towards zero, so the
\* remainder has the sign of a
CRem(a, b) == IF a >= 0 THEN a % b ELSE 0 - ((0 - a) % b)

\* conversions between bool and int: bool(x) is x != 0, int(b) is 0 or 1
ToBool(x) == x # 0
ToInt(b) == IF b THEN 1 ELSE 0

\* Variant of is_even_int without the comparison: return el % 2;
is_even_int_nocmp(el) == CRem(el, 2)

\* is_even_int: [](const int el) -> int { return el % 2 == 0; }
is_even_int(el) == ToInt(CRem(el, 2) = 0)

\* is_even_bool: [](const int el) { return el % 2 == 0; }
is_even_bool(el) == CRem(el, 2) = 0

\* _Iter_pred_auto::operator(): return _M_pred(*__it);  (an int)
Iter_pred_auto(el) == is_even_int(el)

\* Variant of Iter_pred_bool that negates, as _Iter_negate does
Iter_pred_bool_neg(el) == ~ToBool(is_even_int(el))

\* _Iter_pred_bool::operator(): return bool(_M_pred(*__it));
Iter_pred_bool(el) == ToBool(is_even_int(el))

\* _Iter_pred::operator(): bool(_M_pred(*it))
Iter_pred(el) == ToBool(is_even_int(el))

\* values_per_ymmword<T>() == 32 / sizeof(T), T of w bits
values_per_ymmword(w) == 32 \div (w \div 8)

\* reference definition: number of even elements among the first k of s
CountEven(s, k) == Cardinality({j \in 1 .. k : s[j] % 2 = 0})

\* whether a count c is representable in an unsigned type of w bits
Fits(c, w) == w >= 31 \/ c < 2 ^ w

\* the scan routines of the repository:
\*   mcount_if         simd_prefers_32bit_data.bench.cpp, template in ResType
\*   mcount_if_sum, mcount_if_sum_bool
\*                     the godbolt listing, result += pred(*first++), as
\*                     version2 (is_even_int) and version1 (is_even_bool)
\*   mcount_if_branch, mcount_if_branch_bool
\*                     bool_returned_prevents_vectorization.bench.cpp,
\*                     if(pred(first)) ++result, as version2
\*                     (_Iter_pred_auto) and version1 (_Iter_pred_bool)
\*   std_countif       std::count_if (libstdc++ __count_if), version3
\*   count_even_false, count_even_true
\*                     count_even<MORE_OPTIMIZATIONS, T>
Routines ==
    {"mcount_if", "mcount_if_sum", "mcount_if_sum_bool", "mcount_if_branch",
     "mcount_if_branch_bool", "std_countif", "count_even_false",
     "count_even_true"}

\* the routines whose elements are `int`; the others take unsigned elements
\* (std::count_if is called on both)
IntRoutines ==
    {"mcount_if_sum", "mcount_if_sum_bool", "mcount_if_branch",
     "mcount_if_branch_bool", "std_countif"}

\* accumulator types each routine is instantiated with: mcount_if<ResType>
\* and count_even<.., T> are templates, the others count in the iterator's
\* difference_type (64 bits)
WidthsOf(r) ==
    IF r \in {"mcount_if", "count_even_false", "count_even_true"}
    THEN Widths ELSE {64}

\* Variant of Accumulate for an accumulator that saturates instead of
\* wrapping
Accumulate_saturate(r, w, acc, el) ==
    IF el % 2 = 0 /\ (w >= 31 \/ acc + 1 < 2 ^ w) THEN acc + 1 ELSE acc

\* Variant of Accumulate that assigns instead of adding: result = pred(...)
Accumulate_assign(r, w, acc, el) == Wrap(is_even(el), w)

\* one pass of the loop body: the accumulator after element el
\*   mcount_if:         result += pred.template operator()<ResType>(*first);
\*   mcount_if_sum:     result += pred(*first++);
\*   mcount_if_branch:  if(pred(first)) ++result;
\*   std::count_if:     if(__pred(__first)) ++__n;
\*   count_even:        result += (data[i] % 2 == 0);
Accumulate(r, w, acc, el) ==
    CASE r = "mcount_if" ->
            Wrap(acc + is_even(el), w)
      [] r = "mcount_if_sum" ->
            Wrap(acc + is_even_int(el), w)
      [] r = "mcount_if_sum_bool" ->
            Wrap(acc + ToInt(is_even_bool(el)), w)
      [] r = "mcount_if_branch" ->
            IF ToBool(Iter_pred_auto(el)) THEN Wrap(acc + 1, w) ELSE acc
      [] r = "mcount_if_branch_bool" ->
            IF Iter_pred_bool(el) THEN Wrap(acc + 1, w) ELSE acc
      [] r = "std_countif" ->
            IF Iter_pred(el) THEN Wrap(acc + 1, w) ELSE acc
      [] OTHER ->
            Wrap(acc + (IF el % 2 = 0 THEN 1 ELSE 0), w)

\* the whole scan as a function of its input: the accumulator after the
\* first k elements of s, starting from `ResType result = 0`
\* (ScanFrom runs the loop body over s[lo..hi] in index order, from the
\* accumulator acc.  The range is halved, and the accumulator after the
\* lower half is computed before the upper half is entered, only to keep
\* the evaluation shallow on long inputs.)
RECURSIVE ScanFrom(_, _, _, _, _, _)
ScanFrom(r, w, acc, s, lo, hi) ==
    IF lo > hi THEN acc
    ELSE IF lo = hi THEN Accumulate(r, w, acc, s[lo])
    ELSE LET mid  == (lo + hi) \div 2
             left == ScanFrom(r, w, acc, s, lo, mid)
         IN  IF left = left THEN ScanFrom(r, w, left, s, mid + 1, hi)
             ELSE left

Scan(r, w, s, k) == ScanFrom(r, w, 0, s, 1, k)

\* count_even<true>: the sizes the routine is defined for
\*   if(size % values_per_ymmword<T>() != 0 || size == 0) unreachable
\* Variant of Admissible that forgets `|| size == 0`
Admissible_nozero(r, w, sz) ==
    r = "count_even_true" => sz % values_per_ymmword(w) = 0

Admissible(r, w, sz) ==
    r = "count_even_true" => (sz % values_per_ymmword(w) = 0 /\ sz # 0)

\* Outcomes of count_even<true> on an inadmissible size (undefined
\* behaviour).  The build shown in aligned_unreachable.md rounds size down
\* to a multiple of the vector length and loops `do ... while(p != end)`:
\* it returns the count of the rounded-down prefix when that prefix is not
\* empty and runs off the end of the data otherwise; a build that ignores
\* the hint returns the count of the whole input.
UBOutcomes(w, s, sz) ==
    LET vpy == values_per_ymmword(w)
        cut == sz - (sz % vpy)
    IN  {[crash |-> FALSE, val |-> Scan("count_even_false", w, s, sz)]}
        \cup (IF cut > 0
              THEN {[crash |-> FALSE, val |-> Scan("count_even_false", w, s, cut)]}
              ELSE {[crash |-> TRUE, val |-> 0]})

----------------------------------------------------------------------------
(* The vector loops of simd_prefers_32bit_data.md                          *)

\* bit i of x.  The elements of the model are below 2^30, so their bits
\* from 30 up are 0 (2^31 is beyond the model checker's integers).
BitAt(x, i) == IF i < 30 THEN (x \div (2 ^ i)) % 2 ELSE 0

\* (NOT a) AND b on the n low bits
RECURSIVE AndNotBits(_, _, _)
AndNotBits(a, b, n) ==
    IF n = 0 THEN 0
    ELSE AndNotBits(a, b, n - 1)
         + (1 - BitAt(a, n - 1)) * BitAt(b, n - 1) * (2 ^ (n - 1))

\* a AND b on the n low bits
RECURSIVE AndBits(_, _, _)
AndBits(a, b, n) ==
    IF n = 0 THEN 0
    ELSE AndBits(a, b, n - 1)
         + BitAt(a, n - 1) * BitAt(b, n - 1) * (2 ^ (n - 1))

\* bits of a lane that can be set in the model
LaneBits(w) == IF w < 30 THEN w ELSE 30

\* Variant of vpandn without the complement: vpand
vpand(va, vb, w) ==
    [l \in DOMAIN va |-> AndBits(va[l], vb[l], LaneBits(w))]

\* vpandn dst, a, b: dst := (NOT a) AND b, in every lane of w bits
vpandn(va, vb, w) ==
    [l \in DOMAIN va |-> AndNotBits(va[l], vb[l], LaneBits(w))]

\* vpaddb / vpaddw / vpaddd / vpaddq: lane-wise sum modulo 2^w
vpadd(va, vb, w) == [l \in DOMAIN va |-> Wrap(va[l] + vb[l], w)]

\* vmovdqu ymm, YMMWORD PTR [rax]: block b of lanes elements of s
vmovdqu(s, b, lanes) == [l \in 1 .. lanes |-> s[b * lanes + l]]

\* a register with the same value in every lane (1|1|1|1|1|1|1|1)
Broadcast(v, lanes) == [l \in 1 .. lanes |-> v]

\* xmm0 read as a source: the low 128 bits of ymm0, its first four
\* 32-bit lanes
xmm(y) == [l \in 1 .. 4 |-> y[l]]

\* Variant of vextracti128 that takes the low half whatever imm is
vextracti128_low(y, imm) == [l \in 1 .. 4 |-> y[l]]

\* vextracti128 xmm, ymm, imm: the 128-bit half imm of a register of
\* eight 32-bit lanes
vextracti128(y, imm) == [l \in 1 .. 4 |-> y[imm * 4 + l]]

\* vpmovzxdq ymm, xmm: the four 32-bit lanes of xmm zero-extended to four
\* 64-bit lanes
vpmovzxdq(x) == [l \in 1 .. 4 |-> Wrap(x[l], 32)]

\* the sum of the lanes of a register, in the accumulator type
RECURSIVE LaneSum(_, _)
LaneSum(r, n) == IF n = 0 THEN 0 ELSE LaneSum(r, n - 1) + r[n]

HSum(r, w) == Wrap(LaneSum(r, Len(r)), w)

\* one pass of the ideal loop (.L4), element width = accumulator width w:
\*   vmovdqu ymm3, [rax];  vpandn ymm0, ymm3, ymm2;  vpaddd ymm1, ymm1, ymm0
IdealPass(w, r, s, b) ==
    LET lanes == values_per_ymmword(w)
        i == vmovdqu(s, b, lanes)
        j == vpandn(i, Broadcast(1, lanes), w)
    IN  vpadd(r, j, w)

\* one pass of the non-ideal loop (.L4), 32-bit elements and a 64-bit
\* accumulator:
\*   vmovdqu ymm4, [rax];  vpandn ymm0, ymm4, ymm3;  vpmovzxdq ymm1, xmm0
\*   vextracti128 xmm0, ymm0, 0x1;  vpmovzxdq ymm0, xmm0
\*   vpaddq ymm0, ymm1, ymm0;  vpaddq ymm2, ymm2, ymm0
NonIdealPass(r, s, b) ==
    LET i == vmovdqu(s, b, 8)
        j == vpandn(i, Broadcast(1, 8), 32)
        t == vpmovzxdq(xmm(j))
        u == vpmovzxdq(vextracti128(j, 1))
    IN  vpadd(r, vpadd(t, u, 64), 64)

\* the passes lo..hi of a loop, in order, from the accumulator register r
\* (the range is halved only to keep the evaluation shallow)
RECURSIVE LoopFrom(_, _, _, _, _, _)
LoopFrom(ideal, w, r, s, lo, hi) ==
    IF lo > hi THEN r
    ELSE IF lo = hi
         THEN (IF ideal THEN IdealPass(w, r, s, lo) ELSE NonIdealPass(r, s, lo))
    ELSE LET mid  == (lo + hi) \div 2
             left == LoopFrom(ideal, w, r, s, lo, mid)
         IN  IF left = left THEN LoopFrom(ideal, w, left, s, mid + 1, hi)
             ELSE left

\* the ideal loop over the first k elements of s (k a multiple of the
\* number of lanes), followed by the sum of the lanes
IdealLoop(w, s, k) ==
    LET lanes == values_per_ymmword(w)
    IN  HSum(LoopFrom(TRUE, w, Broadcast(0, lanes), s, 0, (k \div lanes) - 1),
             w)

\* the non-ideal loop over the first k elements of s (k a multiple of 8),
\* followed by the sum of the four 64-bit lanes
NonIdealLoop(s, k) ==
    HSum(LoopFrom(FALSE, 64, Broadcast(0, 4), s, 0, (k \div 8) - 1), 64)

----------------------------------------------------------------------------
(* Counting scan: inputs                                                   *)

Elements == 0 .. MaxVal

RECURSIVE SeqsUpTo(_)
SeqsUpTo(k) ==
    IF k = 0 THEN {<< >>}
    ELSE SeqsUpTo(k - 1) \cup [1 .. k -> Elements]

\* values of `int` elements
IntElements == (0 - MaxNeg) .. MaxVal

RECURSIVE IntSeqsUpTo(_)
IntSeqsUpTo(k) ==
    IF k = 0 THEN {<< >>}
    ELSE IntSeqsUpTo(k - 1) \cup [1 .. k -> IntElements]

\* whether every element of s is a value of the unsigned element types
Unsigned(s) == \A j \in 1 .. Len(s) : s[j] >= 0

\* the patterns of the long vectors: an even and an odd value, in every
\* arrangement of up to k elements
RECURSIVE Patterns(_)
Patterns(k) ==
    IF k = 0 THEN {}
    ELSE Patterns(k - 1) \cup [1 .. k -> {MaxVal - 1, MaxVal}]

\* a vector of LongLen elements repeating the pattern p
Periodic(p) == [i \in 1 .. LongLen |-> p[((i - 1) % Len(p)) + 1]]

\* the worked example of the specification
Scenario == <<2, 3, 4, 5, 6>>

\* a vector of one YMMWORD of 32-bit elements whose element q has the
\* parity opposite to the others
OneOut(q, a) ==
    [i \in 1 .. values_per_ymmword(32) |-> IF i = q THEN a ELSE a + 1]

InputVectors ==
    SeqsUpTo(MaxLen)
    \cup IntSeqsUpTo(MaxLen)
    \cup {Periodic(p) : p \in Patterns(MaxPeriod)}
    \cup {OneOut(q, a) : q \in 1 .. values_per_ymmword(32), a \in Elements}
    \cup {Scenario}

\* sizes a benchmark is run at
Sizes == (0 .. MaxLen) \cup {LongLen, Len(Scenario), values_per_ymmword(32)}

----------------------------------------------------------------------------
(* Counting scan: the benchmark and the loop                               *)

ScanIdle ==
    /\ routine = None /\ ResType = 0 /\ size = 0 /\ iters = 0
    /\ spc = "idle" /\ first = 0 /\ result = 0 /\ tmp = << >>
    /\ reads = << >>

\* a benchmark function is entered with state.range(0) = sz:
\*   const auto test_vec = std::span{global_vec.begin(), sz};
BenchStart(r, w, sz) ==
    /\ spc = "idle"
    /\ sz <= Len(global_vec)
    /\ r \in IntRoutines \/ Unsigned(global_vec)
    /\ routine' = r
    /\ ResType' = w
    /\ size' = sz
    /\ spc' = "bench"
    /\ UNCHANGED <<global_vec, iters, first, result, tmp, reads>>
    /\ UNCHANGED <<cntVars, benchVars>>

\* Variant of Call whose accumulator outlives the call: static ResType result
Call_keep ==
    /\ spc = "bench"
    /\ iters < MaxIters
    /\ first' = 0
    /\ result' = result
    /\ reads' = << >>
    /\ spc' = IF Admissible(routine, ResType, size) THEN "loop" ELSE "ub"
    /\ UNCHANGED <<global_vec, routine, ResType, size, iters, tmp>>
    /\ UNCHANGED <<cntVars, benchVars>>

\* Variant of Call that leaves the accumulator uninitialised: ResType result;
Call_uninit ==
    /\ spc = "bench"
    /\ iters < MaxIters
    /\ first' = 0
    /\ result' \in {0, 1}
    /\ reads' = << >>
    /\ spc' = IF Admissible(routine, ResType, size) THEN "loop" ELSE "ub"
    /\ UNCHANGED <<global_vec, routine, ResType, size, iters, tmp>>
    /\ UNCHANGED <<cntVars, benchVars>>

\* one iteration of `for(auto _ : state)` calls the routine:
\*   ResType result = 0;  first = test_vec.begin()
Call ==
    /\ spc = "bench"
    /\ iters < MaxIters
    /\ first' = 0
    /\ result' = 0
    /\ reads' = << >>
    /\ spc' = IF Admissible(routine, ResType, size) THEN "loop" ELSE "ub"
    /\ UNCHANGED <<global_vec, routine, ResType, size, iters, tmp>>
    /\ UNCHANGED <<cntVars, benchVars>>

\* Variant of Step that takes two elements at a time while two are left
Step_pairs ==
    /\ spc = "loop"
    /\ first # size
    /\ IF first + 1 # size
       THEN /\ reads' = Append(Append(reads, first), first + 1)
            /\ result' = Accumulate(routine, ResType,
                               Accumulate(routine, ResType, result,
                                          global_vec[first + 1]),
                               global_vec[first + 2])
            /\ first' = first + 2
       ELSE /\ reads' = Append(reads, first)
            /\ result' = Accumulate(routine, ResType, result,
                                    global_vec[first + 1])
            /\ first' = first + 1
    /\ UNCHANGED <<global_vec, routine, ResType, size, iters, spc, tmp>>
    /\ UNCHANGED <<cntVars, benchVars>>

\* Variant of Step that dereferences the iterator twice per element
Step_twice ==
    /\ spc = "loop"
    /\ first # size
    /\ reads' = Append(Append(reads, first), first)
    /\ result' = Accumulate(routine, ResType, result, global_vec[first + 1])
    /\ first' = first + 1
    /\ UNCHANGED <<global_vec, routine, ResType, size, iters, spc, tmp>>
    /\ UNCHANGED <<cntVars, benchVars>>

\* for(; first != last; ++first) result += pred(*first);
Step ==
    /\ spc = "loop"
    /\ first # size
    /\ reads' = Append(reads, first)
    /\ result' = Accumulate(routine, ResType, result, global_vec[first + 1])
    /\ first' = first + 1
    /\ UNCHANGED <<global_vec, routine, ResType, size, iters, spc, tmp>>
    /\ UNCHANGED <<cntVars, benchVars>>

\* return result;  const auto tmp = ...;  benchmark::DoNotOptimize(tmp);
Return ==
    /\ spc = "loop"
    /\ first = size
    /\ tmp' = <<result>>
    /\ iters' = iters + 1
    /\ spc' = "bench"
    /\ UNCHANGED <<global_vec, routine, ResType, size, first, result, reads>>
    /\ UNCHANGED <<cntVars, benchVars>>

\* count_even<true> called outside its precondition
Undefined ==
    /\ spc = "ub"
    /\ \E o \in UBOutcomes(ResType, global_vec, size) :
          IF o.crash
          THEN /\ spc' = "crashed"
               /\ UNCHANGED <<tmp, iters>>
          ELSE /\ spc' = "bench"
               /\ tmp' = <<o.val>>
               /\ iters' = iters + 1
    /\ UNCHANGED <<global_vec, routine, ResType, size, first, result, reads>>
    /\ UNCHANGED <<cntVars, benchVars>>

NextScan ==
    \/ \E r \in Routines : \E w \in WidthsOf(r) : \E sz \in Sizes :
          BenchStart(r, w, sz)
    \/ Call
    \/ Step
    \/ Return
    \/ Undefined

----------------------------------------------------------------------------
(* Contended counters: layout                                              *)

\* static Storage results[4]; four threads t0..t3
K == 4
Threads == 0 .. K - 1

\* the workers of a run: the first nthreads of t0..t3
Workers == 0 .. nthreads - 1

\* Numbers of workers explored: the four of the source, and the one and two
\* of the specification (K = 1, K in {2, 4}); a run with fewer workers is
\* main without the declarations and joins of the last threads.
ThreadCounts == {1, 2, K}

\* struct alignas(8) Storage, or alignas(64) as the source suggests
Aligns == {8, 64}

\* i < 1 << 26
LoopBound == 2 ^ 26

\* sizeof(Storage) in 64-bit words: one uint64_t padded to the alignment
Stride(a) == a \div 8

\* word offset of results[i].val from the start of results
\* Variant of Addr for a Storage packed two to a word
Addr_half(a, i) == (i \div 2) * Stride(a)

Addr(a, i) == i * Stride(a)

\* words of the storage of results[4]
Words(a) == 0 .. K * Stride(a) - 1

\* Loop bounds explored.  Bounds up to MaxIter run the body one iteration
\* per pass; the bound of the source, 1 << 26, runs it in Passes passes,
\* each covering a run of consecutive iterations of one thread (the last
\* pass takes what is left).
Builds ==
    {[M |-> m, chunk |-> 1] : m \in 1 .. MaxIter}
    \cup {[M |-> LoopBound, chunk |-> (LoopBound + Passes - 1) \div Passes]}

----------------------------------------------------------------------------
(* Contended counters: worker threads (do_stuff)                           *)

CountersIdle(a, n, b) ==
    /\ align = a
    /\ nthreads = n
    /\ M = b.M
    /\ chunk = b.chunk
    /\ mem = [wd \in Words(a) |-> 0]
    /\ idx = [t \in Threads |-> Unbound]
    /\ wpc = [t \in Threads |-> "unstarted"]
    /\ wi = [t \in Threads |-> 0]
    /\ reg = [t \in Threads |-> 0]
    /\ ref = [t \in Threads |-> Unbound]
    /\ mpc = "spawn"
    /\ mk = 0
    /\ joined = {}
    /\ sum = 0
    /\ out = << >>

\* iterations the next pass of the body covers
Pass(t) == IF M - wi[t] < chunk THEN M - wi[t] ELSE chunk

\* Variant of Enter that binds every worker to results[0]
Enter_shared(t) ==
    /\ wpc[t] = "entry"
    /\ ref' = [ref EXCEPT ![t] = Addr(align, 0)]
    /\ wi' = [wi EXCEPT ![t] = 0]
    /\ wpc' = [wpc EXCEPT ![t] = "test"]
    /\ UNCHANGED <<align, nthreads, M, chunk, mem, idx, reg, mpc, mk, joined, sum, out>>
    /\ UNCHANGED <<scanVars, benchVars>>

\* auto& ref = results[idx];  std::size_t i = 0
Enter(t) ==
    /\ wpc[t] = "entry"
    /\ ref' = [ref EXCEPT ![t] = Addr(align, idx[t])]
    /\ wi' = [wi EXCEPT ![t] = 0]
    /\ wpc' = [wpc EXCEPT ![t] = "test"]
    /\ UNCHANGED <<align, nthreads, M, chunk, mem, idx, reg, mpc, mk, joined, sum, out>>
    /\ UNCHANGED <<scanVars, benchVars>>

\* i < 1 << 26
Test(t) ==
    /\ wpc[t] = "test"
    /\ wpc' = [wpc EXCEPT ![t] = IF wi[t] < M THEN "load" ELSE "done"]
    /\ UNCHANGED <<align, nthreads, M, chunk, mem, idx, wi, reg, ref, mpc, mk, joined,
                   sum, out>>
    /\ UNCHANGED <<scanVars, benchVars>>

\* ++ref.val, compiled without optimisation: load ...
Load(t) ==
    /\ wpc[t] = "load"
    /\ reg' = [reg EXCEPT ![t] = mem[ref[t]]]
    /\ wpc' = [wpc EXCEPT ![t] = "add"]
    /\ UNCHANGED <<align, nthreads, M, chunk, mem, idx, wi, ref, mpc, mk, joined, sum,
                   out>>
    /\ UNCHANGED <<scanVars, benchVars>>

\* Variant of Add that leaves the loaded value as it is
Add_none(t) ==
    /\ wpc[t] = "add"
    /\ reg' = reg
    /\ wpc' = [wpc EXCEPT ![t] = "store"]
    /\ UNCHANGED <<align, nthreads, M, chunk, mem, idx, wi, ref, mpc, mk, joined, sum,
                   out>>
    /\ UNCHANGED <<scanVars, benchVars>>

\* ... add ...
Add(t) ==
    /\ wpc[t] = "add"
    /\ reg' = [reg EXCEPT ![t] = reg[t] + Pass(t)]
    /\ wpc' = [wpc EXCEPT ![t] = "store"]
    /\ UNCHANGED <<align, nthreads, M, chunk, mem, idx, wi, ref, mpc, mk, joined, sum,
                   out>>
    /\ UNCHANGED <<scanVars, benchVars>>

\* ... store; then ++i
Store(t) ==
    /\ wpc[t] = "store"
    /\ mem' = [mem EXCEPT ![ref[t]] = reg[t]]
    /\ wi' = [wi EXCEPT ![t] = wi[t] + Pass(t)]
    /\ wpc' = [wpc EXCEPT ![t] = "test"]
    /\ UNCHANGED <<align, nthreads, M, chunk, idx, reg, ref, mpc, mk, joined, sum, out>>
    /\ UNCHANGED <<scanVars, benchVars>>

----------------------------------------------------------------------------
(* Contended counters: main                                                *)

\* main moves on to the next counter of results[4], or to the next
\* statement
Advance(next) ==
    IF mk = K - 1 THEN mpc' = next /\ mk' = 0
    ELSE mpc' = mpc /\ mk' = mk + 1

\* Variant of NextThread that always expects the four threads of the source
NextThread_four(next) ==
    IF mk = K - 1 THEN mpc' = next /\ mk' = 0
    ELSE mpc' = mpc /\ mk' = mk + 1

\* main moves on to the next thread, or past the last one to the next
\* group of statements
NextThread(next) ==
    IF mk = nthreads - 1 THEN mpc' = next /\ mk' = 0
    ELSE mpc' = mpc /\ mk' = mk + 1

\* Variant of Spawn that constructs the last std::thread without a function
Spawn_skip ==
    /\ mpc = "spawn"
    /\ idx' = [idx EXCEPT ![mk] = mk]
    /\ wpc' = [wpc EXCEPT ![mk] = IF mk = nthreads - 1 THEN "unstarted"
                                  ELSE "entry"]
    /\ NextThread("join")
    /\ UNCHANGED <<align, nthreads, M, chunk, mem, wi, reg, ref, joined, sum, out>>
    /\ UNCHANGED <<scanVars, benchVars>>

\* Variant of Spawn with a copied line: std::thread t3(do_stuff, 2);
Spawn_copy ==
    /\ mpc = "spawn"
    /\ idx' = [idx EXCEPT ![mk] = IF mk = 3 THEN 2 ELSE mk]
    /\ wpc' = [wpc EXCEPT ![mk] = "entry"]
    /\ NextThread("join")
    /\ UNCHANGED <<align, nthreads, M, chunk, mem, wi, reg, ref, joined, sum, out>>
    /\ UNCHANGED <<scanVars, benchVars>>

\* std::thread t<mk>(do_stuff, mk);
Spawn ==
    /\ mpc = "spawn"
    /\ idx' = [idx EXCEPT ![mk] = mk]
    /\ wpc' = [wpc EXCEPT ![mk] = "entry"]
    /\ NextThread("join")
    /\ UNCHANGED <<align, nthreads, M, chunk, mem, wi, reg, ref, joined, sum, out>>
    /\ UNCHANGED <<scanVars, benchVars>>

\* Variant of Join that joins whichever thread has finished
Join_any ==
    /\ mpc = "join"
    /\ \E t \in Workers \ joined :
          /\ wpc[t] = "done"
          /\ joined' = joined \cup {t}
    /\ NextThread("read")
    /\ UNCHANGED <<align, nthreads, M, chunk, mem, idx, wpc, wi, reg, ref, sum, out>>
    /\ UNCHANGED <<scanVars, benchVars>>

\* Variant of Join that does not wait (a detached thread)
Join_nowait ==
    /\ mpc = "join"
    /\ joined' = joined \cup {mk}
    /\ NextThread("read")
    /\ UNCHANGED <<align, nthreads, M, chunk, mem, idx, wpc, wi, reg, ref, sum, out>>
    /\ UNCHANGED <<scanVars, benchVars>>

\* t<mk>.join(): returns once the thread has finished
Join ==
    /\ mpc = "join"
    /\ wpc[mk] = "done"
    /\ joined' = joined \cup {mk}
    /\ NextThread("read")
    /\ UNCHANGED <<align, nthreads, M, chunk, mem, idx, wpc, wi, reg, ref, sum, out>>
    /\ UNCHANGED <<scanVars, benchVars>>

\* Variant of Read that keeps only the last counter read
Read_assign ==
    /\ mpc = "read"
    /\ sum' = mem[Addr(align, mk)]
    /\ Advance("cout")
    /\ UNCHANGED <<align, nthreads, M, chunk, mem, idx, wpc, wi, reg, ref, joined, out>>
    /\ UNCHANGED <<scanVars, benchVars>>

\* results[0].val + results[1].val + results[2].val + results[3].val
Read ==
    /\ mpc = "read"
    /\ sum' = sum + mem[Addr(align, mk)]
    /\ Advance("cout")
    /\ UNCHANGED <<align, nthreads, M, chunk, mem, idx, wpc, wi, reg, ref, joined, out>>
    /\ UNCHANGED <<scanVars, benchVars>>

\* std::cout << ... << '\n';  return from main
Cout ==
    /\ mpc = "cout"
    /\ out' = Append(out, sum)
    /\ mpc' = "exit"
    /\ UNCHANGED <<align, nthreads, M, chunk, mem, idx, wpc, wi, reg, ref, mk, joined,
                   sum>>
    /\ UNCHANGED <<scanVars, benchVars>>

NextCounters ==
    \/ Spawn
    \/ Join
    \/ Read
    \/ Cout
    \/ \E t \in Threads : Enter(t)
    \/ \E t \in Threads : Test(t)
    \/ \E t \in Threads : Load(t)
    \/ \E t \in Threads : Add(t)
    \/ \E t \in Threads : Store(t)

----------------------------------------------------------------------------
(* The benchmark binary as shipped: registration and runs                  *)

\* Variant of element_type, half as wide:
\* using element_type = std::uint16_t
element_type_u16 == 32 \div 2

\* using element_type = std::uint32_t, in bits
element_type == 32

\* vec_iter_diff_t: the difference_type of the vector's iterator, in bits
vec_iter_diff_t == 64

\* sizeof(T) for a type of w bits
sizeof(w) == w \div 8

Min(a, b) == IF a < b THEN a ELSE b

\* static constexpr std::size_t SIZE = 1 << 25;
SIZE == 2 ^ 25

\* static constexpr std::size_t STEP = 4ul;
STEP == 4

\* static constexpr std::size_t LEFT = std::min(1ul << 10ul, SIZE);
LEFT == Min(2 ^ 10, SIZE)

\* Variant of RIGHT without the std::min, for a vector half as long as
\* the range
RIGHT_nomin == 2 ^ 26

\* static constexpr std::size_t RIGHT = std::min(1ul << 25ul, SIZE);
RIGHT == Min(2 ^ 25, SIZE)

\* the three BENCHMARK(...) lines, in order, with the type of the
\* accumulator of each
Families == 0 .. 2

FamilyRoutine(f) == IF f = 2 THEN "std_countif" ELSE "mcount_if"

FamilyResType(f) == IF f = 1 THEN element_type ELSE vec_iter_diff_t

\* what the scan of a prefix with c even elements returns in an
\* accumulator of w bits (C1, C5: the count modulo 2^w)
ScanResult(w, c) == Wrap(c, w)

\* counts of even elements a prefix of n random elements can have: none,
\* one, half, all but one, all
EvenCounts(n) == {c \in {0, 1, n \div 2, n - 1, n} : 0 <= c /\ c <= n}

BenchOff ==
    /\ bpc = "off" /\ family = 0 /\ range_i = 0
    /\ args = [f \in Families |-> << >>]
    /\ arg = 0 /\ evens = 0 /\ bytes = << >>

\* registration of family f is over: on to the next BENCHMARK line, or to
\* BENCHMARK_MAIN() and the first instance
NextFamily ==
    IF family = 2
    THEN /\ bpc' = "run" /\ family' = 0 /\ arg' = 1
    ELSE /\ bpc' = "range" /\ family' = family + 1 /\ arg' = arg

\* ->RangeMultiplier(STEP)->Range(LEFT, RIGHT): the first argument is lo;
\* with lo == hi it is the only one, with lo + 1 == hi the other is hi
RangeLo ==
    /\ bpc = "range"
    /\ IF LEFT = RIGHT
       THEN /\ args' = [args EXCEPT ![family] = <<LEFT>>]
            /\ range_i' = range_i
            /\ NextFamily
       ELSE IF LEFT + 1 = RIGHT
       THEN /\ args' = [args EXCEPT ![family] = <<LEFT, RIGHT>>]
            /\ range_i' = range_i
            /\ NextFamily
       ELSE /\ args' = [args EXCEPT ![family] = <<LEFT>>]
            /\ range_i' = 1
            /\ bpc' = "powers"
            /\ UNCHANGED <<family, arg>>
    /\ UNCHANGED <<evens, bytes>>
    /\ UNCHANGED <<scanVars, cntVars>>

\* ... then the powers of the multiplier strictly between lo and hi ...
RangePowers ==
    /\ bpc = "powers"
    /\ IF range_i <= RIGHT - 1
       THEN /\ args' = IF range_i >= LEFT + 1
                       THEN [args EXCEPT ![family] = Append(@, range_i)]
                       ELSE args
            /\ range_i' = range_i * STEP
            /\ bpc' = bpc
       ELSE /\ bpc' = "hi"
            /\ UNCHANGED <<args, range_i>>
    /\ UNCHANGED <<family, arg, evens, bytes>>
    /\ UNCHANGED <<scanVars, cntVars>>

\* ... then hi, unless it is the last argument already
RangeHi ==
    /\ bpc = "hi"
    /\ args' = IF args[family][Len(args[family])] # RIGHT
               THEN [args EXCEPT ![family] = Append(@, RIGHT)]
               ELSE args
    /\ NextFamily
    /\ UNCHANGED <<range_i, evens, bytes>>
    /\ UNCHANGED <<scanVars, cntVars>>

\* a benchmark function is entered for an instance:
\*   const auto test_vec =
\*       std::span{global_vec.begin(), static_cast<std::size_t>(state.range(0))};
BenchEnter ==
    /\ bpc = "run"
    /\ routine' = FamilyRoutine(family)
    /\ ResType' = FamilyResType(family)
    /\ size' = args[family][arg]
    /\ evens' \in EvenCounts(args[family][arg])
    /\ iters' = 0
    /\ tmp' = << >>
    /\ bytes' = << >>
    /\ bpc' = "loop"
    /\ UNCHANGED <<family, range_i, args, arg>>
    /\ UNCHANGED <<global_vec, spc, first, result, reads>>
    /\ UNCHANGED cntVars

\* one iteration of `for(auto _ : state)`:
\*   const auto tmp = mcount_if<...>(test_vec.begin(), test_vec.end(), is_even);
BenchIteration ==
    /\ bpc = "loop"
    /\ iters < MaxRuns
    /\ tmp' = <<ScanResult(ResType, evens)>>
    /\ iters' = iters + 1
    /\ UNCHANGED <<global_vec, routine, ResType, size, spc, first, result, reads>>
    /\ UNCHANGED <<cntVars, benchVars>>

\* Variant of SetBytesProcessed that reports elements instead of bytes
SetBytesProcessed_elements ==
    /\ bpc = "loop"
    /\ iters >= 1
    /\ bytes' = <<iters * size>>
    /\ bpc' = "ran"
    /\ UNCHANGED <<family, range_i, args, arg, evens>>
    /\ UNCHANGED <<scanVars, cntVars>>

\* the library has run the loop at least once and leaves it:
\*   state.SetBytesProcessed(int64_t(state.iterations()) *
\*                           int64_t(state.range(0)) * sizeof(element_type));
SetBytesProcessed ==
    /\ bpc = "loop"
    /\ iters >= 1
    /\ bytes' = <<iters * size * sizeof(element_type)>>
    /\ bpc' = "ran"
    /\ UNCHANGED <<family, range_i, args, arg, evens>>
    /\ UNCHANGED <<scanVars, cntVars>>

\* the library goes on to the next registered instance, or main returns
NextInstance ==
    /\ bpc = "ran"
    /\ IF arg < Len(args[family])
       THEN /\ arg' = arg + 1 /\ family' = family /\ bpc' = "run"
       ELSE IF family < 2
       THEN /\ arg' = 1 /\ family' = family + 1 /\ bpc' = "run"
       ELSE /\ bpc' = "exit" /\ UNCHANGED <<arg, family>>
    /\ UNCHANGED <<range_i, args, evens, bytes>>
    /\ UNCHANGED <<scanVars, cntVars>>

NextBench ==
    \/ RangeLo
    \/ RangePowers
    \/ RangeHi
    \/ BenchEnter
    \/ BenchIteration
    \/ SetBytesProcessed
    \/ NextInstance

----------------------------------------------------------------------------
(* Specifications                                                          *)

\* the benchmark program: global_vec is filled with random elements
InitScan ==
    /\ global_vec \in InputVectors
    /\ ScanIdle
    /\ CountersIdle(8, K, [M |-> 1, chunk |-> 1])
    /\ BenchOff

\* false_sharing.cpp, built with either alignment
InitCounters ==
    /\ global_vec = << >>
    /\ ScanIdle
    /\ \E a \in Aligns : \E n \in ThreadCounts : \E b \in Builds :
          CountersIdle(a, n, b)
    /\ BenchOff

SpecScan == InitScan /\ [][NextScan]_vars

SpecCounters == InitCounters /\ [][NextCounters]_vars

\* the benchmark binary: the static initialisers register the three
\* families, then BENCHMARK_MAIN() runs their instances
InitBench ==
    /\ global_vec = << >>
    /\ ScanIdle
    /\ CountersIdle(8, K, [M |-> 1, chunk |-> 1])
    /\ bpc = "range" /\ family = 0 /\ range_i = 0
    /\ args = [f \in Families |-> << >>]
    /\ arg = 0 /\ evens = 0 /\ bytes = << >>

SpecBench == InitBench /\ [][NextBench]_vars

\* one step of worker t
WorkerStep(t) == Enter(t) \/ Test(t) \/ Load(t) \/ Add(t) \/ Store(t)

\* one step of main
MainStep == Spawn \/ Join \/ Read \/ Cout

\* false_sharing.cpp under a fair scheduler: main and every std::thread
\* are threads of their own, and a thread that can run is eventually run
FairCounters ==
    /\ SpecCounters
    /\ WF_vars(MainStep)
    /\ \A t \in Threads : WF_vars(WorkerStep(t))

----------------------------------------------------------------------------
(* Properties of the counting scan                                         *)

\* the last call of the routine has returned to the benchmark loop, and
\* was made within the routine's precondition
Returned ==
    /\ spc = "bench"
    /\ tmp # << >>
    /\ Admissible(routine, ResType, size)

\* the call has ended, one way or another
Ended == spc = "crashed" \/ (spc = "bench" /\ tmp # << >>)

TrueCount == CountEven(global_vec, size)

\* C1: whenever the accumulator type is wide enough for the true count,
\* mcount_if<ResType>(S, is_even) returns the number of elements of S that
\* are 0 modulo 2.
C1_CountsEven ==
    (Returned /\ routine = "mcount_if" /\ Fits(TrueCount, ResType))
        => tmp = <<TrueCount>>

C1_Witness ==
    /\ Returned /\ routine = "mcount_if" /\ ResType = 16
    /\ size = 3 /\ tmp = <<2>> /\ global_vec = <<2, 1, 0>>

\* C5: when the true count does not fit the accumulator of w bits, the scan
\* still returns, and returns the true count modulo 2^w.
C5_WrapsModulo ==
    (Ended /\ Admissible(routine, ResType, size)
           /\ ~Fits(TrueCount, ResType))
        => (spc = "bench" /\ tmp = <<TrueCount % (2 ^ ResType)>>)

C5_Witness ==
    /\ Returned /\ ResType = 8 /\ routine = "mcount_if"
    /\ TrueCount > 255 /\ tmp = <<TrueCount % 256>>

\* C6: the value mcount_if returns with one accumulator width is the value
\* it yields with any other width, provided the true count fits both.
C6_WidthIndependent ==
    (Returned /\ routine = "mcount_if")
        => \A w2 \in Widths :
              (Fits(TrueCount, ResType) /\ Fits(TrueCount, w2))
                  => <<Scan("mcount_if", w2, global_vec, size)>> = tmp

C6_Witness ==
    /\ Returned /\ routine = "mcount_if" /\ ResType = 8
    /\ size = LongLen /\ tmp[1] > 127 /\ tmp[1] < 256
    /\ Scan("mcount_if", 64, global_vec, size) = tmp[1]

\* C7 as stated: on the empty sequence every routine, with every
\* accumulator width, returns 0.
C7_EmptyIsZero_AllRoutines ==
    (Ended /\ size = 0) => (spc = "bench" /\ tmp = <<0>>)

\* C7 amended: on the empty sequence every routine other than
\* count_even<true> (whose precondition excludes size 0) returns 0, with
\* every accumulator width.
C7_EmptyIsZero ==
    (Ended /\ size = 0 /\ routine # "count_even_true")
        => (spc = "bench" /\ tmp = <<0>>)

C7_Witness ==
    /\ Returned /\ size = 0 /\ routine = "std_countif" /\ tmp = <<0>>
    /\ Len(global_vec) > 0 /\ global_vec[1] = 2

\* the offsets 0, 1, ..., k - 1 in order
InOrder(k) == [j \in 1 .. k |-> j - 1]

\* C8: the scan never writes its input, and it reads the elements once
\* each, in index order: while the loop runs the offsets read so far are
\* 0 .. first - 1, and after the return they are 0 .. size - 1.
C8_ReadsInOrder ==
    /\ spc = "loop" => reads = InOrder(first)
    /\ Returned => reads = InOrder(size)

C8_ReadOnly ==
    [](C8_ReadsInOrder) /\ [][global_vec' = global_vec]_vars

C8_Witness ==
    /\ Returned /\ size = 3 /\ reads = <<0, 1, 2>>
    /\ global_vec = <<1, 2, 3>> /\ routine = "count_even_false"

\* C9: on the sequence [2, 3, 4, 5, 6] the scan returns 3.
C9_Scenario ==
    (Returned /\ global_vec = Scenario /\ size = 5) => tmp = <<3>>

C9_Witness ==
    /\ Returned /\ global_vec = Scenario /\ size = 5 /\ tmp = <<3>>
    /\ routine = "mcount_if" /\ ResType = 32

----------------------------------------------------------------------------
(* Properties of the contended counters                                    *)

\* C2: once main has printed, the total printed is K * M for the K workers
\* of the run, whatever the interleaving of the workers and with either
\* alignment of Storage.
C2_TotalIsKM ==
    /\ mpc = "cout" => sum = nthreads * M
    /\ mpc = "exit" => out = <<nthreads * M>>

C2_Witness ==
    /\ mpc = "exit" /\ out = <<8>> /\ M = 2 /\ align = 64 /\ nthreads = K

\* C3: main reads no counter before every worker has run its loop to the
\* end and has been joined.
C3_JoinBeforeRead ==
    mpc \in {"read", "cout", "exit"}
        => \A t \in Workers :
              wpc[t] = "done" /\ wi[t] = M /\ t \in joined

C3_Witness ==
    /\ mpc = "read" /\ mk = 2 /\ joined = Threads
    /\ \A t \in Threads : wpc[t] = "done"

\* the threads that have been constructed
Started == {t \in Threads : wpc[t] # "unstarted"}

C4_DistinctIdx ==
    \A t1, t2 \in Started : t1 # t2 => idx[t1] # idx[t2]

\* a step that changes a word of results[] is the store of one worker, and
\* the word is the counter that worker is bound to, results[t].val
C4_OwnCounterOnly ==
    \A wd \in Words(align) :
        mem'[wd] # mem[wd] =>
            \E t \in Threads :
                /\ wpc[t] = "store" /\ wpc'[t] = "test"
                /\ idx[t] = t
                /\ wd = Addr(align, t)

\* C4: the workers are bound to distinct indices and a worker's step
\* changes no counter but its own.
C4_SingleWriter ==
    [](C4_DistinctIdx) /\ [][C4_OwnCounterOnly]_vars

C4_Witness ==
    /\ Started = Threads /\ align = 8
    /\ mem[Addr(align, 3)] = 1 /\ mem[Addr(align, 1)] = 2
    /\ wpc[0] = "store"

\* C10: the build of the source, with loop bound 1 << 26, prints 268435456
\* with either alignment of Storage.
C10_PrintsTotal ==
    (mpc = "exit" /\ M = LoopBound /\ nthreads = K) => out = <<268435456>>

C10_Witness ==
    /\ mpc = "exit" /\ M = LoopBound /\ align = 8 /\ nthreads = K
    /\ out = <<268435456>>

----------------------------------------------------------------------------
(* Equivalences between the forms of the scan                              *)

\* the three forms of the count: branching, arithmetic, std::count_if; the
\* arithmetic mcount_if<ResType> of the benchmark joins them on unsigned
\* input
C13_Forms ==
    {"mcount_if_branch", "mcount_if_sum", "std_countif"}
    \cup (IF Unsigned(global_vec) THEN {"mcount_if"} ELSE {})

\* C13: with the predicate is_even (which returns 0 or 1) the branching
\* form, the arithmetic form and std::count_if return the same count on
\* every input.
C13_BranchEqualsSum ==
    (Returned /\ routine \in C13_Forms /\ ResType = 64)
        => \A r2 \in C13_Forms :
              <<Scan(r2, ResType, global_vec, size)>> = tmp

C13_Witness ==
    /\ Returned /\ routine = "mcount_if_branch" /\ size = 3
    /\ global_vec = <<0 - 1, 0, 1>> /\ tmp = <<1>>
    /\ Scan("mcount_if_sum", 64, global_vec, size) = 1

\* version1, version2, version3 of the benchmark and of the listing
C14_Versions ==
    {{"mcount_if_branch_bool", "mcount_if_branch", "std_countif"},
     {"mcount_if_sum_bool", "mcount_if_sum", "std_countif"}}

\* C14: coercing the predicate's result to bool or passing its int through
\* gives the same count: version1, version2 and version3 agree on every
\* vector of ints, negative values included.
C14_BoolEqualsAuto ==
    Returned =>
        \A vs \in C14_Versions :
            routine \in vs =>
                \A r2 \in vs : <<Scan(r2, ResType, global_vec, size)>> = tmp

C14_Witness ==
    /\ Returned /\ routine = "mcount_if_branch_bool" /\ size = 3
    /\ global_vec = <<0 - 2, 0 - 1, 2>> /\ tmp = <<2>>
    /\ Scan("mcount_if_branch", 64, global_vec, size) = 2

\* C15: in every lane (x mod 2 = 0) is ((NOT x) AND 1), and the ideal
\* vector loop followed by the sum of its lanes gives what the scalar scan
\* with the same accumulator width returns, on every input whose length is
\* a multiple of the number of lanes.
C15_IdealLoop ==
    (Returned /\ routine = "mcount_if" /\ Unsigned(global_vec)
              /\ size % values_per_ymmword(ResType) = 0)
        => /\ \A k \in 1 .. size :
                 (global_vec[k] % 2 = 0) <=>
                 (AndNotBits(global_vec[k], 1, LaneBits(ResType)) = 1)
           /\ tmp = <<IdealLoop(ResType, global_vec, size)>>

C15_Witness ==
    /\ Returned /\ routine = "mcount_if" /\ ResType = 32 /\ size = 8
    /\ global_vec = OneOut(6, 2) /\ tmp = <<1>>
    /\ IdealLoop(32, global_vec, 8) = 1

\* C16: the non-ideal vector loop followed by the sum of its four 64-bit
\* lanes gives what the scalar scan with a 64-bit accumulator returns.
C16_NonIdealLoop ==
    (Returned /\ routine = "mcount_if" /\ ResType = 64
              /\ Unsigned(global_vec) /\ size % 8 = 0)
        => tmp = <<NonIdealLoop(global_vec, size)>>

C16_Witness ==
    /\ Returned /\ routine = "mcount_if" /\ ResType = 64 /\ size = 8
    /\ global_vec = OneOut(7, 1) /\ tmp = <<7>>
    /\ NonIdealLoop(global_vec, 8) = 7

\* the sizes count_even<true> is specified for: the non-zero multiples of
\* 32 / sizeof(T), T of w bits
C17_Multiple(w, sz) == sz # 0 /\ sz % (32 \div (w \div 8)) = 0

C18_Terminates ==
    /\ <>(\A t \in Workers : wpc[t] = "done" /\ wi[t] = M
                                /\ mem[Addr(align, t)] = M)
    /\ <>(joined = Workers)
    /\ <>[](mpc = "exit" /\ out = <<nthreads * M>>)
    /\ [](Len(out) <= 1)
    /\ [](mpc # "exit" => ENABLED NextCounters)

C18_Witness ==
    /\ mpc = "exit" /\ nthreads = 2 /\ M = 2 /\ align = 8
    /\ joined = {0, 1} /\ out = <<4>>
    /\ \A t \in Workers : wpc[t] = "done" /\ wi[t] = 2

\* C19: whatever the interleaving of the loads, adds and stores of the
\* workers, the counter of a worker that has finished holds exactly M, and
\* so does every counter main reads.
C19_NoLostIncrement ==
    /\ \A t \in Workers : wpc[t] = "done" => mem[Addr(align, t)] = M
    /\ mpc \in {"read", "cout", "exit"}
          => \A t \in Workers : mem[Addr(align, t)] = M

C19_Witness ==
    /\ nthreads = K /\ M = 2 /\ align = 8
    /\ wpc[0] = "done" /\ mem[Addr(align, 0)] = 2
    /\ wpc[1] = "add" /\ wpc[2] = "load" /\ wpc[3] = "store"

\* C20: in every reachable state results[t].val is the number of
\* iterations worker t has completed, lies between 0 and M, and is 0 while
\* worker t has not started; no step decreases it.
C20_CounterIsProgress ==
    /\ [](\A t \in Threads :
            /\ mem[Addr(align, t)] = wi[t]
            /\ 0 <= mem[Addr(align, t)] /\ mem[Addr(align, t)] <= M
            /\ wpc[t] \in {"unstarted", "entry"} => mem[Addr(align, t)] = 0)
    /\ [][\A t \in Threads :
             mem'[Addr(align', t)] >= mem[Addr(align, t)]]_vars

C20_Witness ==
    /\ nthreads = K /\ M = 2 /\ align = 64
    /\ wpc[0] = "add" /\ wi[0] = 1 /\ mem[Addr(align, 0)] = 1
    /\ wpc[1] = "done" /\ mem[Addr(align, 1)] = 2
    /\ wpc[3] = "unstarted" /\ mem[Addr(align, 3)] = 0

\* a worker that has been started and has not finished
Running(t) == wpc[t] \in {"entry", "test", "load", "add", "store"}

\* C21: every worker is started before main blocks on the first join, and
\* main joins t0, t1, t2, t3 in that order whatever the order in which they
\* finish: the joined threads are always t0 .. t(mk - 1).
C21_StartAllThenJoinInOrder ==
    /\ [](mpc # "spawn" => \A t \in Workers : wpc[t] # "unstarted")
    /\ [](joined = (IF mpc = "spawn" THEN {}
                    ELSE IF mpc = "join" THEN 0 .. (mk - 1)
                    ELSE Workers))
    /\ [][joined' # joined =>
             \E t \in Workers : /\ joined = 0 .. (t - 1)
                                /\ joined' = 0 .. t
                                /\ wpc[t] = "done"]_vars

C21_Witness ==
    /\ nthreads = K /\ mpc = "join" /\ mk = 0 /\ joined = {}
    /\ \A t \in Threads : Running(t)
    /\ wpc[3] = "store" /\ wpc[0] = "entry"

\* C22: while the loop runs, with the first `first` elements processed
\* (0 <= first <= size), the accumulator is the number of even elements
\* among them modulo 2^w; a step processes one element and changes the
\* accumulator by 0 or by 1 (modulo 2^w); the loop is left after exactly
\* size steps.
C22_LoopInvariant ==
    /\ [](spc = "loop" =>
            /\ 0 <= first /\ first <= size
            /\ Len(reads) = first
            /\ result = Wrap(CountEven(global_vec, first), ResType))
    /\ [][(spc = "loop" /\ first' # first) =>
             /\ first' = first + 1
             /\ result' = result \/ result' = Wrap(result + 1, ResType)]_vars
    /\ [][(spc = "loop" /\ spc' # "loop") =>
             (first = size /\ Len(reads) = size /\ tmp' = <<result>>)]_vars

C22_Witness ==
    /\ spc = "loop" /\ routine = "mcount_if" /\ ResType = 8
    /\ size = LongLen /\ first = 256 /\ result = 0
    /\ CountEven(global_vec, first) = 256

----------------------------------------------------------------------------
(* Algebraic properties of the scan                                        *)

\* the elements k + 1 .. n of s
Suffix(s, k, n) == SubSeq(s, k + 1, n)

\* the first n elements of s rearranged by f
Permuted(s, f, n) == [j \in 1 .. n |-> s[f[j]]]

\* the permutations of 1 .. n, for n up to 5
Perms == [n \in 0 .. 5 |->
             {f \in [1 .. n -> 1 .. n] :
                 \A a, b \in 1 .. n : f[a] = f[b] => a = b}]

\* the exchange of the positions i and i + 1
Transpose(i, n) ==
    [j \in 1 .. n |-> IF j = i THEN i + 1 ELSE IF j = i + 1 THEN i ELSE j]

\* the split points and the rearrangements the properties are evaluated
\* at: all of them on the short inputs; on the long ones the ends, the
\* middle and the points where an 8-bit accumulator wraps, and the
\* reversal with some exchanges of neighbours
C24_Splits(n) ==
    IF n <= 8 THEN 0 .. n
    ELSE {k \in {0, 1, n \div 2, 255, 256, n - 1, n} : k <= n}

C24_Rearrangements(n) ==
    IF n <= 5 THEN Perms[n]
    ELSE {[j \in 1 .. n |-> n + 1 - j]}
         \cup {Transpose(i, n) :
                 i \in IF n <= 8 THEN 1 .. (n - 1) ELSE {1, n \div 2, n - 1}}

\* C24: the count of S ++ T is the sum of the counts of S and of T modulo
\* 2^w, and the count of a rearrangement of S is the count of S.
C24_AdditiveAndOrderFree ==
    (Returned /\ routine # "count_even_true")
        => /\ \A k \in C24_Splits(size) :
                 <<Wrap(Scan(routine, ResType, global_vec, k)
                        + Scan(routine, ResType, Suffix(global_vec, k, size),
                               size - k),
                        ResType)>> = tmp
           /\ \A f \in C24_Rearrangements(size) :
                 <<Scan(routine, ResType, Permuted(global_vec, f, size),
                        size)>> = tmp

C24_Witness ==
    /\ Returned /\ routine = "mcount_if" /\ ResType = 8 /\ size = LongLen
    /\ tmp = <<LongLen - 256>>
    /\ Scan("mcount_if", 8, global_vec, 255) = 255
    /\ Scan("mcount_if", 8, Suffix(global_vec, 255, size), size - 255)
          = LongLen - 255

\* C25: inside one benchmark run every call of the routine returns what
\* the call before it returned, and every call starts from the beginning
\* of the span with the accumulator at 0.
C25_SameEveryCall ==
    /\ [][(spc = "loop" /\ spc' = "bench" /\ tmp # << >>) => tmp' = tmp]_vars
    /\ [][(spc = "bench" /\ spc' = "loop") => (result' = 0 /\ first' = 0)]_vars
    /\ [](Returned => tmp = <<Scan(routine, ResType, global_vec, size)>>)

C25_Witness ==
    /\ Returned /\ iters = 2 /\ routine = "mcount_if" /\ ResType = 64
    /\ size = 3 /\ global_vec = <<0, 2, 1>> /\ tmp = <<2>> /\ result = 2

----------------------------------------------------------------------------
(* Properties of the benchmark binary as shipped                           *)

\* an instance is inside its benchmark function
InBenchmark == bpc \in {"loop", "ran"}

\* n < 2^32, on the halves of n (2^32 is beyond the model checker's
\* integers)
Below2To32(n) == n \div (2 ^ 16) < 2 ^ 16

\* C23: for every registered size n the count of a prefix is at most
\* n <= 2^25 < 2^32, so it is not changed by the reduction to the 32-bit
\* element_type, and assume_element_type, assume_difference_type and
\* std_countif all obtain the count itself.
C23_NeverWraps ==
    InBenchmark =>
        /\ evens <= size /\ size <= 2 ^ 25 /\ Below2To32(size)
        /\ Wrap(evens, element_type) = evens
        /\ \A f \in Families :
              ScanResult(FamilyResType(f), evens) = evens
        /\ tmp # << >> => tmp = <<evens>>

C23_Witness ==
    /\ bpc = "loop" /\ routine = "mcount_if" /\ ResType = 32
    /\ size = 33554432 /\ evens = 33554432 /\ tmp = <<33554432>>

\* C26: every size registered for the three benchmarks lies between LEFT
\* and RIGHT, and RIGHT is at most SIZE, so the span of an instance ends
\* at or before the end of global_vec.
C26_SpanWithinVector ==
    /\ LEFT <= RIGHT /\ RIGHT <= SIZE
    /\ \A f \in Families : \A k \in 1 .. Len(args[f]) :
          LEFT <= args[f][k] /\ args[f][k] <= RIGHT
    /\ InBenchmark => (LEFT <= size /\ size <= RIGHT /\ size <= SIZE)

C26_Witness ==
    /\ bpc = "loop" /\ routine = "std_countif" /\ size = SIZE
    /\ args[2] = <<1024, 4096, 16384, 65536, 262144, 1048576, 4194304,
                   16777216, 33554432>>

\* C27: each of the three benchmarks reports
\* iterations * n * sizeof(element_type) bytes, 4 bytes an element.
C27_BytesProcessed ==
    bpc = "ran" =>
        /\ bytes = <<iters * size * 4>>
        /\ iters >= 1
        /\ routine = FamilyRoutine(family)

C27_Witness ==
    /\ bpc = "ran" /\ family = 1 /\ routine = "mcount_if" /\ ResType = 32
    /\ iters = 2 /\ size = 4096 /\ bytes = <<32768>>

====
